---------------------------- MODULE Spec2Model ----------------------------
(***************************************************************************)
(* Model of tank-monitor-with-calibration.py: the CAN reader thread        *)
(* (TankMonitor.monitor_can), the 100 ms GUI timer handler                 *)
(* (TankMonitor.process_messages), the tank widgets it updates and the     *)
(* calibration sender (CalibrationTab.send_calibration).                   *)
(*                                                                         *)
(* 32-bit words (can_id, echo_id) are kept as two 16-bit halves, because   *)
(* 0x80000000 and 0xFFFFFFFF do not fit TLC's integers.  Python            *)
(* floats are IEEE-754 doubles; they are kept as a binary exponent and a   *)
(* 53-bit significand in five limbs (1 + 4 x 13 bits), with division and   *)
(* multiplication rounded to nearest, ties to even, as the hardware does.  *)
(***************************************************************************)
EXTENDS Integers, Sequences, FiniteSets, TLC

(***************************************************************************)
(* Bounds of the model.                                                    *)
(***************************************************************************)
MaxReads == 3
MaxSends == 1

\* the longest queue in the specification of the reader that reads on
\* without end
MaxQueue == 2

(***************************************************************************)
(* 32-bit words and the bit operations the program applies to them.        *)
(***************************************************************************)
Byte == 0 .. 255

W32(h, l) == [hi |-> h, lo |-> l]

RECURSIVE BitAndNot(_, _, _)
\* a & ~b on n-bit values
BitAndNot(a, b, n) ==
    IF n = 0 THEN 0
    ELSE (IF a % 2 = 1 /\ b % 2 = 0 THEN 1 ELSE 0)
         + 2 * BitAndNot(a \div 2, b \div 2, n - 1)

RECURSIVE BitOr(_, _, _)
\* a | b on n-bit values
BitOr(a, b, n) ==
    IF n = 0 THEN 0
    ELSE (IF a % 2 = 1 \/ b % 2 = 1 THEN 1 ELSE 0)
         + 2 * BitOr(a \div 2, b \div 2, n - 1)

\* x & ~flag
AndNot32(x, flag) ==
    W32(BitAndNot(x.hi, flag.hi, 16), BitAndNot(x.lo, flag.lo, 16))

\* x | flag
Or32(x, flag) == W32(BitOr(x.hi, flag.hi, 16), BitOr(x.lo, flag.lo, 16))

(***************************************************************************)
(* Constants of the program.                                               *)
(***************************************************************************)
TANK_STATUS_DGN      == W32(6655, 47023)     \* 0x19FFB7AF
TANK_CALIBRATION_DGN == W32(6655, 46767)     \* 0x19FFB6AF
GS_USB_NONE_ECHO_ID  == W32(65535, 65535)    \* 0xFFFFFFFF
GS_USB_ECHO_ID       == 0
GS_CAN_MODE_NORMAL   == 0
GS_CAN_MODE_LISTEN_ONLY == 1                 \* 1 << 0
GS_CAN_MODE_LOOP_BACK == 2                   \* 1 << 1
CAN_EFF_FLAG         == W32(32768, 0)        \* 0x80000000
CAN_RTR_FLAG         == W32(16384, 0)        \* 0x40000000
BITRATE              == 250000
debug                == FALSE

(***************************************************************************)
(* IEEE-754 doubles, for the non-negative finite values the program        *)
(* computes.  Zero is FZero; any other value is [e, m] and stands for      *)
(* (m[1] + m[2]/B + m[3]/B^2 + m[4]/B^3 + m[5]/B^4) * 2^e with m[1] = 1    *)
(* and B = 2^13, i.e. a 53-bit significand.                                *)
(***************************************************************************)
LimbBase == 2 ^ 13

FZero == [zero |-> TRUE, e |-> 0, m |-> <<0, 0, 0, 0, 0>>]

FNum(e, m) == [zero |-> FALSE, e |-> e, m |-> m]

RECURSIVE BitLen(_)
BitLen(n) == IF n = 0 THEN 0 ELSE 1 + BitLen(n \div 2)

RECURSIVE NormaliseQuotient(_, _, _)
\* scale n/d by powers of two into [1, 2); e counts the scaling
NormaliseQuotient(n, d, e) ==
    IF n < d THEN NormaliseQuotient(2 * n, d, e - 1)
    ELSE IF n >= 2 * d THEN NormaliseQuotient(n, 2 * d, e + 1)
    ELSE [n |-> n, d |-> d, e |-> e]

\* the significand plus one unit in the last place
FNext(e, m) ==
    LET c5 == IF m[5] + 1 = LimbBase THEN 1 ELSE 0
        c4 == IF m[4] + c5 = LimbBase THEN 1 ELSE 0
        c3 == IF m[3] + c4 = LimbBase THEN 1 ELSE 0
        c2 == IF m[2] + c3 = LimbBase THEN 1 ELSE 0
    IN  IF m[1] + c2 = 2
        THEN FNum(e + 1, <<1, 0, 0, 0, 0>>)
        ELSE FNum(e, << m[1],
                        (m[2] + c3) % LimbBase,
                        (m[3] + c4) % LimbBase,
                        (m[4] + c5) % LimbBase,
                        (m[5] + 1) % LimbBase >>)

\* the only element of a one-element set
The(S) == CHOOSE x \in S : TRUE

\* the double nearest q.n / q.d * 2^q.e, for q.n / q.d in [1, 2): long
\* division, 13 bits at a time, then rounding on the remainder
FloatDivNormalised(q) ==
    LET r1 == q.n - q.d
        t2 == r1 * LimbBase
        t3 == (t2 % q.d) * LimbBase
        t4 == (t3 % q.d) * LimbBase
        t5 == (t4 % q.d) * LimbBase
        r  == t5 % q.d
        m  == <<1, t2 \div q.d, t3 \div q.d, t4 \div q.d, t5 \div q.d>>
    IN  IF 2 * r > q.d \/ (2 * r = q.d /\ m[5] % 2 = 1)
        THEN FNext(q.e, m)
        ELSE FNum(q.e, m)

\* Python's a / b for ints 0 <= a < 2^15, 0 < b < 2^8: the correctly
\* rounded double nearest the quotient.  (The set binds q to a value, so
\* that the quotient is normalised once.)
FloatDiv(a, b) ==
    IF a = 0 THEN FZero
    ELSE The({ FloatDivNormalised(q) : q \in {NormaliseQuotient(a, b, 0)} })

\* the exact product of the double x and the int k, rounded to 53 bits
FloatMulRounded(x, k) ==
    IF x.zero THEN FZero
    ELSE
      LET p5  == x.m[5] * k
          p4  == x.m[4] * k + p5 \div LimbBase
          p3  == x.m[3] * k + p4 \div LimbBase
          p2  == x.m[2] * k + p3 \div LimbBase
          top == x.m[1] * k + p2 \div LimbBase
          d2  == p2 % LimbBase
          d3  == p3 % LimbBase
          d4  == p4 % LimbBase
          d5  == p5 % LimbBase
          s   == BitLen(top) - 1
          S   == 2 ^ s
          m   == << top \div S,
                    ((top % S) * LimbBase + d2) \div S,
                    ((d2 % S) * LimbBase + d3) \div S,
                    ((d3 % S) * LimbBase + d4) \div S,
                    ((d4 % S) * LimbBase + d5) \div S >>
          rem == d5 % S
      IN  IF 2 * rem > S \/ (2 * rem = S /\ m[5] % 2 = 1)
          THEN FNext(x.e + s, m)
          ELSE FNum(x.e + s, m)

\* Python's x * k for a double x and an int 0 < k < 2^13.  (The set binds y
\* to the value of x, so that x is evaluated once.)
FloatMul(x, k) == The({ FloatMulRounded(y, k) : y \in {x} })

\* Python's int(x): truncation, for 0 <= x < 2^27
FloatToInt(x) ==
    IF x.zero \/ x.e < 0 THEN 0
    ELSE IF x.e <= 13
         THEN x.m[1] * 2 ^ x.e + x.m[2] \div 2 ^ (13 - x.e)
         ELSE x.m[1] * 2 ^ x.e + x.m[2] * 2 ^ (x.e - 13)
              + x.m[3] \div 2 ^ (26 - x.e)


(***************************************************************************)
(* Frames (GsUsbFrame): can_id, echo_id and the data bytes.                *)
(***************************************************************************)
Frame(id, echo, data) == [can_id |-> id, echo_id |-> echo, data |-> data]

\* GsUsbFrame(): the frame object the reader hands to dev.read
BlankFrame == Frame(W32(0, 0), W32(0, GS_USB_ECHO_ID), <<0, 0, 0, 0, 0, 0, 0, 0>>)

\* FilterAccepts without the echo test
FilterAccepts_NoEchoTest(f) ==
    AndNot32(f.can_id, CAN_EFF_FLAG) = TANK_STATUS_DGN

\* the condition under which monitor_can puts a received frame on the queue
FilterAccepts(f) ==
    /\ AndNot32(f.can_id, CAN_EFF_FLAG) = TANK_STATUS_DGN
    /\ f.echo_id = GS_USB_NONE_ECHO_ID

(***************************************************************************)
(* Decoding in process_messages.  Python indexes data from 0, TLA+ from 1. *)
(***************************************************************************)
RECURSIVE FromBytesBig(_)
\* int.from_bytes(b, 'big')
FromBytesBig(b) ==
    IF b = <<>> THEN 0 ELSE Head(b) * 256 ^ (Len(b) - 1) + FromBytesBig(Tail(b))

RECURSIVE FromBytesLittle(_)
\* int.from_bytes(b, 'little')
FromBytesLittle(b) ==
    IF b = <<>> THEN 0 ELSE Head(b) + 256 * FromBytesLittle(Tail(b))

\* the locals of one iteration of the loop of process_messages
Decode(f) ==
    LET instance       == f.data[1]
        relative_level == f.data[2]
        resolution     == IF f.data[3] > 0 THEN f.data[3] ELSE 1
        absolute_level == FromBytesLittle(SubSeq(f.data, 4, 5))
        level_percent  == IF debug
                          THEN FloatMul(FloatDiv(14, resolution), 100)
                          ELSE FloatMul(FloatDiv(relative_level, resolution), 100)
    IN  [instance       |-> instance,
         relative_level |-> relative_level,
         resolution     |-> resolution,
         absolute_level |-> absolute_level,
         level_percent  |-> level_percent]

(***************************************************************************)
(* Tank widgets: the progress bar's value and the level label's text.      *)
(* The label is "N/A L" (na) or "<pct>%".  A QProgressBar starts without a *)
(* value (-1) and setValue leaves the value alone when the new one is      *)
(* outside the range given to setRange.                                    *)
(***************************************************************************)
BarMin == 0
BarMax == 100

LabelNA == [na |-> TRUE, pct |-> 0]

LabelPercent(n) == [na |-> FALSE, pct |-> n]

\* TankWidget.__init__
NewTankWidget == [level_bar |-> -1, level_label |-> LabelNA]

\* QProgressBar.setValue on a bar with range BarMin..BarMax
BarSetValue(cur, v) == IF v < BarMin \/ v > BarMax THEN cur ELSE v

\* TankWidget.update_level
update_level(w, relative_level, absolute_level) ==
    [level_bar   |-> BarSetValue(w.level_bar, FloatToInt(relative_level)),
     level_label |-> LabelPercent(FloatToInt(relative_level))]

\* the keys of TankMonitor.tanks
TankInstances == 0 .. 3

\* CalibrationFrame with the resolution byte set to 1 and the rest to 0, as
\* the comment above the bytearray describes
CalibrationFrame_AsCommented(tank_instance, level) ==
    Frame(Or32(TANK_CALIBRATION_DGN, CAN_EFF_FLAG),
          W32(0, GS_USB_ECHO_ID),
          <<tank_instance, level, 1, 0, 0, 0, 0>>)

\* CalibrationFrame sent under the tank-status identifier and without an
\* echo id
CalibrationFrame_AsTankStatus(tank_instance, level) ==
    Frame(Or32(TANK_STATUS_DGN, CAN_EFF_FLAG),
          GS_USB_NONE_ECHO_ID,
          <<tank_instance, level, 255, 255, 255, 255, 255>>)

\* the calibration frame send_calibration builds
CalibrationFrame(tank_instance, level) ==
    Frame(Or32(TANK_CALIBRATION_DGN, CAN_EFF_FLAG),
          W32(0, GS_USB_ECHO_ID),
          <<tank_instance, level, 255, 255, 255, 255, 255>>)

(***************************************************************************)
(* State.                                                                  *)
(***************************************************************************)
VARIABLES
    dev,            \* CalibrationTab.dev: TRUE for a device handle, FALSE for None
    tank_select,    \* CalibrationTab.tank_select: the current index
    level_input,    \* CalibrationTab.level_input: the current value
    readerPc,       \* where the monitor_can thread is
    readerExit,     \* why monitor_can ended ("running" while it has not)
    adapterLog,     \* the adapter calls monitor_can has completed, in order
    frame,          \* monitor_can's local frame of the latest dev.read
    nReads,         \* number of dev.read calls made
    message_queue,  \* TankMonitor.message_queue
    tanks,          \* TankMonitor.tanks: instance -> widget state
    tickPc,         \* "idle", or "loop" while process_messages runs
    locals,         \* the locals of the latest loop iteration (<<>> before the first)
    pushed,         \* history: every frame put on the queue, in order
    dequeued,       \* history: every frame taken by get_nowait, in order
    tickSnapshot,   \* history: the queue when the running tick was invoked
    tickTaken,      \* history: the frames the running (or last) tick has taken
    sent,           \* history: every frame handed to dev.send, in order
    calReport       \* what the latest send_calibration printed ("" before the first)

vars == << dev, tank_select, level_input, readerPc, readerExit, adapterLog, frame, nReads, message_queue,
           tanks, tickPc, locals, pushed, dequeued, tickSnapshot, tickTaken,
           sent, calReport >>

readerVars   == << readerPc, readerExit, adapterLog, frame, nReads, pushed >>
consumerVars == << tanks, tickPc, locals, dequeued, tickSnapshot, tickTaken >>
calVars      == << dev, tank_select, level_input, sent, calReport >>

Call(name, arg) == [call |-> name, arg |-> arg]

(***************************************************************************)
(* Inputs of the model: the payloads and frames the bus delivers, and the  *)
(* values the operator enters.                                             *)
(***************************************************************************)
StatusPayloads ==
    { <<0, 50, 1, 0, 0, 0, 0, 0>>,          \* 5000 %
      <<0, 29, 100, 52, 18, 0, 0, 0>>,      \* (29/100)*100, absolute 0x1234
      <<1, 1, 0, 0, 0, 255, 255, 0>>,       \* resolution byte 0
      <<0, 1, 4, 255, 255, 0, 0, 0>>,       \* 25 %
      <<9, 50, 100, 0, 0, 0, 0, 0>> }       \* an instance that is not tracked

\* the resolution-0 payload comes without the extended-format flag
StatusFrames ==
    { Frame(IF d[3] = 0 THEN TANK_STATUS_DGN
                        ELSE Or32(TANK_STATUS_DGN, CAN_EFF_FLAG),
            GS_USB_NONE_ECHO_ID, d) :
        d \in StatusPayloads }

OtherPayload == <<0, 75, 100, 0, 0, 0, 0, 0>>

OtherFrames ==
    { Frame(Or32(TANK_STATUS_DGN, CAN_EFF_FLAG), W32(0, GS_USB_ECHO_ID), OtherPayload),
      Frame(Or32(TANK_STATUS_DGN, CAN_RTR_FLAG), GS_USB_NONE_ECHO_ID, OtherPayload),
      Frame(Or32(TANK_CALIBRATION_DGN, CAN_EFF_FLAG), GS_USB_NONE_ECHO_ID, OtherPayload) }

\* what the bus delivers when the monitoring path is checked
RxFrames == StatusFrames \cup OtherFrames

\* what the bus delivers when progress of the timer handler is checked
FairFrames ==
    { f \in StatusFrames :
        f.data \in { <<0, 50, 1, 0, 0, 0, 0, 0>>,
                     <<0, 1, 4, 255, 255, 0, 0, 0>>,
                     <<9, 50, 100, 0, 0, 0, 0, 0>> } }

\* what the bus delivers when the whole program is checked
FewFrames ==
    { Frame(Or32(TANK_STATUS_DGN, CAN_EFF_FLAG), GS_USB_NONE_ECHO_ID,
            <<2, 1, 4, 0, 0, 0, 0, 0>>) }

\* a transmitted frame as the adapter hands it back to dev.read: same
\* can_id and echo_id, data padded to eight bytes
Echo(f) ==
    Frame(f.can_id, f.echo_id,
          f.data \o [i \in 1 .. (8 - Len(f.data)) |-> 0])

Echoes == { Echo(sent[i]) : i \in 1 .. Len(sent) }

\* what the operator enters when the whole program is checked
FewInstances == {0, 2}
FewLevels == {0, 75}

\* the range of the level spin box
CalLevels == 0 .. 100

SendOutcomes == {"ok", "failed", "raised"}

\* the payloads decoding is checked on: every raw level and resolution
\* byte, and a family that varies the other bytes
LevelPayloads ==
    { <<0, b1, b2, 0, 0, 0, 0, 0>> : b1 \in Byte, b2 \in Byte }

LayoutPayloads ==
    { <<i, 50, r, b3, b4, b5, b6, 0>> :
        i \in {0, 1, 2, 3, 9, 255}, r \in {0, 1},
        b3 \in {0, 1, 52, 255}, b4 \in {0, 1, 18, 255},
        b5 \in {0, 255}, b6 \in {0, 255} }

\* every instance byte
InstancePayloads ==
    { <<i, 1, 4, 0, 0, 0, 0, 0>> : i \in Byte }

DecodeFrames ==
    { Frame(Or32(TANK_STATUS_DGN, CAN_EFF_FLAG), GS_USB_NONE_ECHO_ID, d) :
        d \in LevelPayloads \cup LayoutPayloads \cup InstancePayloads }

(***************************************************************************)
(* Initial state: the windows are built, the reader thread and the timer   *)
(* are started.                                                            *)
(***************************************************************************)
Init ==
    /\ dev \in BOOLEAN
    /\ tank_select = 0
    /\ level_input = 0
    /\ readerPc = "scan"
    /\ readerExit = "running"
    /\ adapterLog = <<>>
    /\ frame = BlankFrame
    /\ nReads = 0
    /\ message_queue = <<>>
    /\ tanks = [i \in TankInstances |-> NewTankWidget]
    /\ tickPc = "idle"
    /\ locals = <<>>
    /\ pushed = <<>>
    /\ dequeued = <<>>
    /\ tickSnapshot = <<>>
    /\ tickTaken = <<>>
    /\ sent = <<>>
    /\ calReport = ""

(***************************************************************************)
(* monitor_can.                                                            *)
(***************************************************************************)
ReaderEnd(why) ==
    /\ readerPc' = "done"
    /\ readerExit' = why

\* ScanNone without the return: the thread goes on to configure the adapter
ScanNone_NoReturn ==
    /\ readerPc = "scan"
    /\ readerPc' = "stop"
    /\ readerExit' = "no_device"
    /\ UNCHANGED << adapterLog, frame, nReads, pushed, message_queue >>
    /\ UNCHANGED << consumerVars, calVars >>

\* devs = GsUsb.scan(); if not devs: return
ScanNone ==
    /\ readerPc = "scan"
    /\ ReaderEnd("no_device")
    /\ UNCHANGED << adapterLog, frame, nReads, pushed, message_queue >>
    /\ UNCHANGED << consumerVars, calVars >>

\* devs = GsUsb.scan(); dev = devs[0]
ScanFound ==
    /\ readerPc = "scan"
    /\ readerPc' = "stop"
    /\ UNCHANGED << readerExit, adapterLog, frame, nReads, pushed, message_queue >>
    /\ UNCHANGED << consumerVars, calVars >>

\* dev.stop()
Stop ==
    /\ readerPc = "stop"
    /\ readerPc' = "set_bitrate"
    /\ adapterLog' = Append(adapterLog, Call("stop", 0))
    /\ UNCHANGED << readerExit, frame, nReads, pushed, message_queue >>
    /\ UNCHANGED << consumerVars, calVars >>

\* SetBitrateFail without the return
SetBitrateFail_NoReturn ==
    /\ readerPc = "set_bitrate"
    /\ adapterLog' = Append(adapterLog, Call("set_bitrate_failed", BITRATE))
    /\ readerPc' = "start"
    /\ UNCHANGED << readerExit, frame, nReads, pushed, message_queue >>
    /\ UNCHANGED << consumerVars, calVars >>

\* if not dev.set_bitrate(250000): return
SetBitrateFail ==
    /\ readerPc = "set_bitrate"
    /\ adapterLog' = Append(adapterLog, Call("set_bitrate_failed", BITRATE))
    /\ ReaderEnd("bitrate")
    /\ UNCHANGED << frame, nReads, pushed, message_queue >>
    /\ UNCHANGED << consumerVars, calVars >>

\* dev.set_bitrate(250000) returned true
SetBitrateOk ==
    /\ readerPc = "set_bitrate"
    /\ adapterLog' = Append(adapterLog, Call("set_bitrate", BITRATE))
    /\ readerPc' = "start"
    /\ UNCHANGED << readerExit, frame, nReads, pushed, message_queue >>
    /\ UNCHANGED << consumerVars, calVars >>

\* Start that opens the adapter in listen-only mode
Start_ListenOnly ==
    /\ readerPc = "start"
    /\ adapterLog' = Append(adapterLog, Call("start", GS_CAN_MODE_LISTEN_ONLY))
    /\ readerPc' = "read"
    /\ UNCHANGED << readerExit, frame, nReads, pushed, message_queue >>
    /\ UNCHANGED << consumerVars, calVars >>

\* dev.start(GS_CAN_MODE_NORMAL)
Start ==
    /\ readerPc = "start"
    /\ adapterLog' = Append(adapterLog, Call("start", GS_CAN_MODE_NORMAL))
    /\ readerPc' = "read"
    /\ UNCHANGED << readerExit, frame, nReads, pushed, message_queue >>
    /\ UNCHANGED << consumerVars, calVars >>

\* one iteration of the while loop in which dev.read times out
ReadTimeout ==
    /\ readerPc = "read"
    /\ nReads < MaxReads
    /\ nReads' = nReads + 1
    /\ frame' = BlankFrame
    /\ UNCHANGED << readerPc, readerExit, adapterLog, pushed, message_queue >>
    /\ UNCHANGED << consumerVars, calVars >>

\* ReadFrame with a queue that hands out the newest frame first
ReadFrame_Lifo(f) ==
    /\ readerPc = "read"
    /\ nReads < MaxReads
    /\ nReads' = nReads + 1
    /\ frame' = f
    /\ IF FilterAccepts(f)
       THEN /\ message_queue' = <<f>> \o message_queue
            /\ pushed' = Append(pushed, f)
       ELSE UNCHANGED << message_queue, pushed >>
    /\ UNCHANGED << readerPc, readerExit, adapterLog >>
    /\ UNCHANGED << consumerVars, calVars >>

\* ReadFrame whose put waits while process_messages is running
ReadFrame_WaitsForDrain(f) ==
    /\ readerPc = "read"
    /\ nReads < MaxReads
    /\ ~FilterAccepts(f) \/ tickPc = "idle"
    /\ nReads' = nReads + 1
    /\ frame' = f
    /\ IF FilterAccepts(f)
       THEN /\ message_queue' = Append(message_queue, f)
            /\ pushed' = Append(pushed, f)
       ELSE UNCHANGED << message_queue, pushed >>
    /\ UNCHANGED << readerPc, readerExit, adapterLog >>
    /\ UNCHANGED << consumerVars, calVars >>

\* one iteration of the while loop in which dev.read fills the frame with f
ReadFrame(f) ==
    /\ readerPc = "read"
    /\ nReads < MaxReads
    /\ nReads' = nReads + 1
    /\ frame' = f
    /\ IF FilterAccepts(f)
       THEN /\ message_queue' = Append(message_queue, f)
            /\ pushed' = Append(pushed, f)
       ELSE UNCHANGED << message_queue, pushed >>
    /\ UNCHANGED << readerPc, readerExit, adapterLog >>
    /\ UNCHANGED << consumerVars, calVars >>

\* AdapterRaise with a handler that starts the thread's work over
AdapterRaise_Restarts ==
    /\ readerPc \in {"scan", "stop", "set_bitrate", "start", "read"}
    /\ readerPc' = "scan"
    /\ readerExit' = "error"
    /\ UNCHANGED << adapterLog, frame, nReads, pushed, message_queue >>
    /\ UNCHANGED << consumerVars, calVars >>

\* an adapter call (scan, stop, set_bitrate, start, read) raises: the
\* except clause prints and the thread ends
AdapterRaise ==
    /\ readerPc \in {"scan", "stop", "set_bitrate", "start", "read"}
    /\ ReaderEnd("error")
    /\ UNCHANGED << adapterLog, frame, nReads, pushed, message_queue >>
    /\ UNCHANGED << consumerVars, calVars >>

(***************************************************************************)
(* process_messages, run by the timer on the GUI thread.  The reader can   *)
(* put frames while the loop runs, so each loop iteration is a step.       *)
(***************************************************************************)
\* TickStart of a timer that stops firing once a run has taken a frame
TickStart_StopsFiring ==
    /\ tickPc = "idle"
    /\ dequeued = <<>>
    /\ tickPc' = "loop"
    /\ tickSnapshot' = message_queue
    /\ tickTaken' = <<>>
    /\ UNCHANGED << tanks, locals, dequeued, message_queue >>
    /\ UNCHANGED << readerVars, calVars >>

\* the timer fires and the handler is entered
TickStart ==
    /\ tickPc = "idle"
    /\ tickPc' = "loop"
    /\ tickSnapshot' = message_queue
    /\ tickTaken' = <<>>
    /\ UNCHANGED << tanks, locals, dequeued, message_queue >>
    /\ UNCHANGED << readerVars, calVars >>

\* TickStep that handles one frame per timer tick: it takes the head and
\* leaves the loop
TickStep_OneFramePerTick ==
    /\ tickPc = "loop"
    /\ message_queue # <<>>
    /\ \E f \in {Head(message_queue)} : \E l \in {Decode(f)} :
           /\ message_queue' = Tail(message_queue)
           /\ dequeued' = Append(dequeued, f)
           /\ tickTaken' = Append(tickTaken, f)
           /\ locals' = <<l>>
           /\ IF l.instance \in DOMAIN tanks
              THEN tanks' = [tanks EXCEPT ![l.instance] =
                                update_level(@, l.level_percent, l.absolute_level)]
              ELSE UNCHANGED tanks
    /\ tickPc' = "idle"
    /\ UNCHANGED tickSnapshot
    /\ UNCHANGED << readerVars, calVars >>

\* TickStep that leaves the loop when the instance is not a key of tanks
TickStep_StopsOnUnknown ==
    /\ tickPc = "loop"
    /\ message_queue # <<>>
    /\ \E f \in {Head(message_queue)} : \E l \in {Decode(f)} :
           /\ message_queue' = Tail(message_queue)
           /\ dequeued' = Append(dequeued, f)
           /\ tickTaken' = Append(tickTaken, f)
           /\ locals' = <<l>>
           /\ IF l.instance \in DOMAIN tanks
              THEN /\ tanks' = [tanks EXCEPT ![l.instance] =
                                   update_level(@, l.level_percent, l.absolute_level)]
                   /\ tickPc' = tickPc
              ELSE /\ UNCHANGED tanks
                   /\ tickPc' = "idle"
    /\ UNCHANGED tickSnapshot
    /\ UNCHANGED << readerVars, calVars >>

\* TickStep that makes a widget for an instance that is not a key of tanks
TickStep_AddsInstance ==
    /\ tickPc = "loop"
    /\ message_queue # <<>>
    /\ \E f \in {Head(message_queue)} : \E l \in {Decode(f)} :
           /\ message_queue' = Tail(message_queue)
           /\ dequeued' = Append(dequeued, f)
           /\ tickTaken' = Append(tickTaken, f)
           /\ locals' = <<l>>
           /\ tanks' = [i \in DOMAIN tanks \cup {l.instance} |->
                          IF i = l.instance
                          THEN update_level(IF i \in DOMAIN tanks
                                            THEN tanks[i] ELSE NewTankWidget,
                                            l.level_percent, l.absolute_level)
                          ELSE tanks[i]]
    /\ UNCHANGED << tickPc, tickSnapshot >>
    /\ UNCHANGED << readerVars, calVars >>

\* one iteration: the queue is not empty, get_nowait, decode, update; f is
\* the frame taken and l the locals computed from it
TickStep ==
    /\ tickPc = "loop"
    /\ message_queue # <<>>
    /\ \E f \in {Head(message_queue)} : \E l \in {Decode(f)} :
           /\ message_queue' = Tail(message_queue)
           /\ dequeued' = Append(dequeued, f)
           /\ tickTaken' = Append(tickTaken, f)
           /\ locals' = <<l>>
           /\ IF l.instance \in DOMAIN tanks
              THEN tanks' = [tanks EXCEPT ![l.instance] =
                                update_level(@, l.level_percent, l.absolute_level)]
              ELSE UNCHANGED tanks
    /\ UNCHANGED << tickPc, tickSnapshot >>
    /\ UNCHANGED << readerVars, calVars >>

\* the queue is empty: the loop and the handler end
TickEnd ==
    /\ tickPc = "loop"
    /\ message_queue = <<>>
    /\ tickPc' = "idle"
    /\ UNCHANGED << tanks, locals, dequeued, tickSnapshot, tickTaken, message_queue >>
    /\ UNCHANGED << readerVars, calVars >>

(***************************************************************************)
(* send_calibration, a slot of the GUI thread: it runs between timer       *)
(* handlers, never inside one.                                             *)
(***************************************************************************)
\* the operator picks a tank in the combo box
SelectTank(i) ==
    /\ tickPc = "idle"
    /\ tank_select # i
    /\ tank_select' = i
    /\ UNCHANGED << dev, level_input, sent, calReport >>
    /\ UNCHANGED << readerVars, consumerVars, message_queue >>

\* the operator enters a level in the spin box
EnterLevel(v) ==
    /\ tickPc = "idle"
    /\ level_input # v
    /\ level_input' = v
    /\ UNCHANGED << dev, tank_select, sent, calReport >>
    /\ UNCHANGED << readerVars, consumerVars, message_queue >>

\* if not self.dev: print, return
SendCalibrationNoDevice ==
    /\ tickPc = "idle"
    /\ ~dev
    /\ calReport # "No USB device available"
    /\ calReport' = "No USB device available"
    /\ UNCHANGED << dev, tank_select, level_input, sent >>
    /\ UNCHANGED << readerVars, consumerVars, message_queue >>

\* SendCalibration that also writes the level into the selected tank's widget
SendCalibration_UpdatesTank(outcome) ==
    /\ tickPc = "idle"
    /\ dev
    /\ Len(sent) < MaxSends
    /\ sent' = Append(sent, CalibrationFrame(tank_select, level_input))
    /\ tanks' = [tanks EXCEPT ![tank_select].level_label = LabelPercent(level_input)]
    /\ calReport' = CASE outcome = "ok"     -> "Sent calibration command"
                      [] outcome = "failed" -> "Failed to send calibration command"
                      [] outcome = "raised" -> "Error sending calibration command"
    /\ UNCHANGED << dev, tank_select, level_input >>
    /\ UNCHANGED << tickPc, locals, dequeued, tickSnapshot, tickTaken >>
    /\ UNCHANGED << readerVars, message_queue >>

\* SendCalibration that hands the frame to dev.send a second time when the
\* first call did not succeed
SendCalibration_Retries(outcome) ==
    /\ tickPc = "idle"
    /\ dev
    /\ Len(sent) < MaxSends
    /\ sent' = IF outcome = "ok"
               THEN Append(sent, CalibrationFrame(tank_select, level_input))
               ELSE sent \o << CalibrationFrame(tank_select, level_input),
                               CalibrationFrame(tank_select, level_input) >>
    /\ calReport' = CASE outcome = "ok"     -> "Sent calibration command"
                      [] outcome = "failed" -> "Failed to send calibration command"
                      [] outcome = "raised" -> "Error sending calibration command"
    /\ UNCHANGED << dev, tank_select, level_input >>
    /\ UNCHANGED << readerVars, consumerVars, message_queue >>

\* the frame is built from the form and handed to dev.send, which returns
\* true or false or raises
SendCalibration(outcome) ==
    /\ tickPc = "idle"
    /\ dev
    /\ Len(sent) < MaxSends
    /\ LET tank_instance == tank_select
           level         == level_input
       IN  sent' = Append(sent, CalibrationFrame(tank_instance, level))
    /\ calReport' = CASE outcome = "ok"     -> "Sent calibration command"
                      [] outcome = "failed" -> "Failed to send calibration command"
                      [] outcome = "raised" -> "Error sending calibration command"
    /\ UNCHANGED << dev, tank_select, level_input >>
    /\ UNCHANGED << readerVars, consumerVars, message_queue >>

(***************************************************************************)
(* The system.                                                             *)
(***************************************************************************)
\* the whole program, on few inputs
Next ==
    \/ ScanNone
    \/ ScanFound
    \/ Stop
    \/ SetBitrateFail
    \/ SetBitrateOk
    \/ Start
    \/ ReadTimeout
    \/ \E f \in FewFrames \cup Echoes : ReadFrame(f)
    \/ AdapterRaise
    \/ TickStart
    \/ TickStep
    \/ TickEnd
    \/ \E i \in FewInstances : SelectTank(i)
    \/ \E v \in FewLevels : EnterLevel(v)
    \/ SendCalibrationNoDevice
    \/ \E o \in SendOutcomes : SendCalibration(o)

Spec == Init /\ [][Next]_vars

\* the monitoring path (reader thread and timer handler) on more frames;
\* the operator leaves the calibration form alone
NextMonitor ==
    \/ ScanNone
    \/ ScanFound
    \/ Stop
    \/ SetBitrateFail
    \/ SetBitrateOk
    \/ Start
    \/ ReadTimeout
    \/ \E f \in RxFrames : ReadFrame(f)
    \/ AdapterRaise
    \/ TickStart
    \/ TickStep
    \/ TickEnd

SpecMonitor == Init /\ [][NextMonitor]_vars

\* the monitoring path with the timer firing again and again and the
\* handler's loop running on: the Qt event loop fires the 100 ms timer for
\* as long as the program runs
NextMonitorFair ==
    \/ ScanNone
    \/ ScanFound
    \/ Stop
    \/ SetBitrateFail
    \/ SetBitrateOk
    \/ Start
    \/ ReadTimeout
    \/ \E f \in FairFrames : ReadFrame(f)
    \/ AdapterRaise
    \/ TickStart
    \/ TickStep
    \/ TickEnd

SpecMonitorFair ==
    /\ Init
    /\ [][NextMonitorFair]_vars
    /\ WF_vars(TickStart)
    /\ WF_vars(TickStep)
    /\ WF_vars(TickEnd)

\* the calibration path on every input of the form: the operator has
\* picked a tank and entered a level, and presses the button
InitCalibration ==
    /\ dev \in BOOLEAN
    /\ tank_select \in TankInstances
    /\ level_input \in CalLevels
    /\ readerPc = "scan"
    /\ readerExit = "running"
    /\ adapterLog = <<>>
    /\ frame = BlankFrame
    /\ nReads = 0
    /\ message_queue = <<>>
    /\ tanks = [i \in TankInstances |-> NewTankWidget]
    /\ tickPc = "idle"
    /\ locals = <<>>
    /\ pushed = <<>>
    /\ dequeued = <<>>
    /\ tickSnapshot = <<>>
    /\ tickTaken = <<>>
    /\ sent = <<>>
    /\ calReport = ""

NextCalibration ==
    \/ SendCalibrationNoDevice
    \/ \E o \in SendOutcomes : SendCalibration(o)

SpecCalibration == InitCalibration /\ [][NextCalibration]_vars

\* decoding on every level and resolution byte: the reader has put one
\* accepted frame on the queue and the timer handler takes it
InitDecode ==
    /\ dev = TRUE
    /\ tank_select = 0
    /\ level_input = 0
    /\ readerPc = "read"
    /\ readerExit = "running"
    /\ adapterLog = << Call("stop", 0), Call("set_bitrate", BITRATE),
                       Call("start", GS_CAN_MODE_NORMAL) >>
    /\ frame \in DecodeFrames
    /\ nReads = 1
    /\ message_queue = <<frame>>
    /\ tanks = [i \in TankInstances |-> NewTankWidget]
    /\ tickPc = "idle"
    /\ locals = <<>>
    /\ pushed = <<frame>>
    /\ dequeued = <<>>
    /\ tickSnapshot = <<>>
    /\ tickTaken = <<>>
    /\ sent = <<>>
    /\ calReport = ""

NextDecode ==
    \/ TickStart
    \/ TickStep
    \/ TickEnd

SpecDecode == InitDecode /\ [][NextDecode]_vars

(***************************************************************************)
(* The reader that reads on without end.  The loop of monitor_can has no   *)
(* exit, so the bus can deliver frames for as long as the program runs.    *)
(* Here the reader's iterations are not counted and no history is kept,    *)
(* so that a behaviour can go on forever in finitely many states; the      *)
(* queue is as long as MaxQueue at most.                                   *)
(***************************************************************************)
\* one iteration of the while loop of monitor_can in which dev.read fills
\* the frame with f
StreamRead(f) ==
    /\ readerPc = "read"
    /\ Len(message_queue) < MaxQueue
    /\ frame' = f
    /\ IF FilterAccepts(f)
       THEN message_queue' = Append(message_queue, f)
       ELSE UNCHANGED message_queue
    /\ UNCHANGED << readerPc, readerExit, adapterLog, nReads, pushed >>
    /\ UNCHANGED << consumerVars, calVars >>

\* one iteration of the while loop of process_messages: the queue is not
\* empty, get_nowait, decode, update
StreamStep ==
    /\ tickPc = "loop"
    /\ message_queue # <<>>
    /\ \E f \in {Head(message_queue)} : \E l \in {Decode(f)} :
           /\ message_queue' = Tail(message_queue)
           /\ locals' = <<l>>
           /\ IF l.instance \in DOMAIN tanks
              THEN tanks' = [tanks EXCEPT ![l.instance] =
                                update_level(@, l.level_percent, l.absolute_level)]
              ELSE UNCHANGED tanks
    /\ UNCHANGED << tickPc, dequeued, tickSnapshot, tickTaken >>
    /\ UNCHANGED << readerVars, calVars >>

\* the adapter is configured and started, the reader is in its loop
InitStream ==
    /\ dev = TRUE
    /\ tank_select = 0
    /\ level_input = 0
    /\ readerPc = "read"
    /\ readerExit = "running"
    /\ adapterLog = << Call("stop", 0), Call("set_bitrate", BITRATE),
                       Call("start", GS_CAN_MODE_NORMAL) >>
    /\ frame = BlankFrame
    /\ nReads = 0
    /\ message_queue = <<>>
    /\ tanks = [i \in TankInstances |-> NewTankWidget]
    /\ tickPc = "idle"
    /\ locals = <<>>
    /\ pushed = <<>>
    /\ dequeued = <<>>
    /\ tickSnapshot = <<>>
    /\ tickTaken = <<>>
    /\ sent = <<>>
    /\ calReport = ""

NextStream ==
    \/ \E f \in FairFrames : StreamRead(f)
    \/ TickStart
    \/ StreamStep
    \/ TickEnd

\* the timer fires again and again and the handler's loop runs on; nothing
\* is assumed of the reader
SpecStream ==
    /\ InitStream
    /\ [][NextStream]_vars
    /\ WF_vars(TickStart)
    /\ WF_vars(StreamStep)
    /\ WF_vars(TickEnd)

(***************************************************************************)
(* Properties.                                                             *)
(***************************************************************************)
Last(q) == q[Len(q)]

\* 0x19FFB7AF, with or without bit 31, and echo_id 0xFFFFFFFF
IsTankStatus(f) ==
    /\ f.can_id.lo = 47023
    /\ f.can_id.hi \in {6655, 6655 + 32768}
    /\ f.echo_id.hi = 65535
    /\ f.echo_id.lo = 65535

\* the step is an iteration of the reader's loop
ReadStep == nReads' = nReads + 1

\* the step is an iteration of the timer handler's loop
TakeStep == Len(dequeued') = Len(dequeued) + 1

\* C1: the reader puts the frame it has just read on the queue exactly when
\* the identifier without the extended-format flag is 0x19FFB7AF and the
\* echo_id is 0xFFFFFFFF; so every frame ever put satisfies both, and a frame
\* with another echo_id is never put even when its identifier matches.
C1_PushIffTankStatus ==
    /\ [](\A i \in 1 .. Len(pushed) : IsTankStatus(pushed[i]))
    /\ [](\A i \in 1 .. Len(message_queue) : IsTankStatus(message_queue[i]))
    /\ [][ /\ (pushed' # pushed) =>
                /\ ReadStep
                /\ pushed' = Append(pushed, frame')
                /\ message_queue' = Append(message_queue, frame')
           /\ ReadStep =>
                ((pushed' # pushed) <=> IsTankStatus(frame')) ]_vars

\* a frame with the tank-status identifier and a real echo_id has been read
\* and is not on the queue, which holds an accepted frame
C1_Witness ==
    /\ frame.can_id = [hi |-> 6655 + 32768, lo |-> 47023]
    /\ frame.echo_id = [hi |-> 0, lo |-> 0]
    /\ nReads >= 2
    /\ Len(message_queue) = 1
    /\ \A i \in 1 .. Len(pushed) : pushed[i] # frame

\* the frame of the latest loop iteration of process_messages
Taken == Last(dequeued)

DecodedSome == locals # <<>> /\ dequeued # <<>>

\* C2: for an accepted frame with instance 0..3, raw level b1 and resolution
\* byte b2, the decoded percentage is b1 * 100 / max(b2, 1); stated for its
\* whole part, which is what the widget shows: the whole part of the
\* decoded percentage is the whole part of b1 * 100 / max(b2, 1).
C2_PercentIsLevelTimes100OverResolution ==
    (DecodedSome /\ Taken.data[1] \in 0 .. 3) =>
        FloatToInt(locals[1].level_percent)
            = (Taken.data[2] * 100)
                \div (IF Taken.data[3] = 0 THEN 1 ELSE Taken.data[3])

\* a double that holds the whole number n, 0 < n < 2^15
WholeDouble(n) == FloatDiv(n, 1)

\* what C3 says of every payload: instance, absolute level, bytes 5-6
C3_Layout ==
    DecodedSome =>
        /\ locals[1].instance = Taken.data[1]
        /\ locals[1].absolute_level = Taken.data[4] + 256 * Taken.data[5]
        /\ locals[1].absolute_level \in 0 .. 65535
        /\ locals[1] = Decode([Taken EXCEPT !.data[6] = 0, !.data[7] = 0])
        /\ locals[1] = Decode([Taken EXCEPT !.data[6] = 255, !.data[7] = 255])

C3_ExamplePayload ==
    DecodedSome /\ SubSeq(Taken.data, 1, 7) = <<0, 50, 1, 0, 0, 0, 0>>

\* C3 as claimed: the layout, and payload [0,50,1,0,0,0,0] decodes to
\* instance 0, relativeLevelPercent 50, absoluteLevel 0.
C3_AsClaimed ==
    /\ C3_Layout
    /\ C3_ExamplePayload =>
          /\ locals[1].instance = 0
          /\ locals[1].level_percent = WholeDouble(50)
          /\ locals[1].absolute_level = 0

\* C3 as amended: the instance is byte 0, the absolute level is
\* byte3 + 256 * byte4, in 0..65535, bytes 5-6 do not matter, and payload
\* [0,50,1,0,0,0,0] decodes to instance 0, relativeLevelPercent 5000,
\* absoluteLevel 0.
C3_Amended ==
    /\ C3_Layout
    /\ C3_ExamplePayload =>
          /\ locals[1].instance = 0
          /\ locals[1].level_percent = WholeDouble(5000)
          /\ locals[1].absolute_level = 0

\* a payload with absolute level bytes 0x34, 0x12 and bytes 5-6 set has been
\* decoded
C3_Witness ==
    /\ DecodedSome
    /\ SubSeq(Taken.data, 4, 7) = <<52, 18, 255, 255>>
    /\ locals[1].absolute_level = 4660
    /\ locals[1].instance = 3

\* the last frame the running tick took was for an instance that is not
\* tracked
AfterUnknown ==
    /\ tickPc = "loop"
    /\ tickTaken # <<>>
    /\ Last(tickTaken).data[1] \notin 0 .. 3

\* a step of the timer handler
ConsumerStep == tickPc' # tickPc \/ TakeStep

\* C4: an iteration that takes a frame whose instance byte is not 0..3
\* leaves every tank as it was and stays in the loop, and with frames left
\* on the queue the handler's next step takes the next frame.
C4_UnknownInstanceDropped ==
    [][ /\ (TakeStep /\ Head(message_queue).data[1] \notin 0 .. 3) =>
              /\ tanks' = tanks
              /\ tickPc' = "loop"
        /\ (AfterUnknown /\ message_queue # <<>> /\ ConsumerStep) =>
              /\ TakeStep
              /\ dequeued' = Append(dequeued, Head(message_queue)) ]_vars

\* one tick took a frame for instance 9 and then a frame for instance 1,
\* which it applied
C4_Witness ==
    /\ Len(tickTaken) = 2
    /\ tickTaken[1].data[1] = 9
    /\ tickTaken[2].data[1] = 1
    /\ tanks[1].level_label = LabelPercent(100)
    /\ tanks[0] = NewTankWidget

IsPrefix(p, q) == Len(p) <= Len(q) /\ SubSeq(q, 1, Len(p)) = p

\* the last n elements of q
Suffix(q, n) == SubSeq(q, Len(q) - n + 1, Len(q))

\* the step in which a run of process_messages returns
TickReturns == tickPc = "loop" /\ tickPc' = "idle"

\* C6: a drain of an empty queue returns without waiting, having taken
\* nothing, and a drain returns exactly the frames put since the drain
\* before it, in the order they were put, and leaves the queue empty.
C6_DrainReturnsPushesInOrder ==
    /\ []((tickPc = "loop" /\ message_queue = <<>>) => ENABLED TickEnd)
    /\ [](Len(tickTaken) <= Len(dequeued)
          /\ tickTaken = Suffix(dequeued, Len(tickTaken)))
    /\ [][ TickReturns =>
             /\ message_queue' = <<>>
             /\ dequeued' = pushed'
             /\ tickTaken' = Suffix(pushed', Len(tickTaken'))
             /\ (tickSnapshot = <<>> /\ Len(pushed) = Len(dequeued) - Len(tickTaken)
                   => tickTaken' = <<>>) ]_vars

\* three frames were put, the first two different, and one drain then
\* returned the three
C6_Witness ==
    /\ tickPc = "idle"
    /\ Len(tickTaken) = 3
    /\ tickSnapshot = tickTaken
    /\ pushed = tickTaken
    /\ tickTaken[1] # tickTaken[2]
    /\ message_queue = <<>>

\* the positions in dequeued of the frames for instance i
TakenFor(i) == { k \in 1 .. Len(dequeued) : dequeued[k].data[1] = i }

SetMax(S) == CHOOSE x \in S : \A y \in S : y <= x

\* what a widget shows when it holds the reading of frame f and nothing else
ShowsOnly(f) ==
    LET pct == FloatToInt(Decode(f).level_percent)
    IN  [level_bar |-> pct, level_label |-> LabelPercent(pct)]

\* C7: after two or more updates for one instance its entry is the reading
\* of the frame taken last for that instance, with nothing of earlier
\* readings, and an instance no frame was taken for has its entry untouched.
C7_LastWriterWins ==
    \A i \in TankInstances :
        /\ Cardinality(TakenFor(i)) >= 2
              => tanks[i] = ShowsOnly(dequeued[SetMax(TakenFor(i))])
        /\ TakenFor(i) = {} => tanks[i] = NewTankWidget

\* C8: when a run of process_messages returns, every frame that was on the
\* queue when it was invoked has been taken, in queue order, and decoded,
\* and the queue is empty.
C8_TickDrainsWholeQueue ==
    /\ [](tickPc = "idle" =>
            /\ IsPrefix(tickSnapshot, tickTaken)
            /\ tickTaken # <<>> => locals = <<Decode(Last(tickTaken))>>)
    /\ [][ TickReturns =>
             /\ message_queue = <<>>
             /\ IsPrefix(tickSnapshot, tickTaken)
             /\ Len(dequeued) >= Len(tickSnapshot) ]_vars

\* a run invoked with three frames queued has returned, all three taken
C8_Witness ==
    /\ tickPc = "idle"
    /\ Len(tickSnapshot) = 3
    /\ tickTaken = tickSnapshot
    /\ tickTaken[2] # tickTaken[3]
    /\ locals = <<Decode(tickTaken[3])>>

LogHas(name) == \E i \in 1 .. Len(adapterLog) : adapterLog[i].call = name

\* C9: once set_bitrate has returned false the reader thread has ended: the
\* adapter is never started, read is never called, no frame is ever put and
\* set_bitrate is not called again.
C9_BitrateFailureIsTerminal ==
    /\ [](LogHas("set_bitrate_failed") =>
            /\ readerPc = "done"
            /\ readerExit = "bitrate"
            /\ ~LogHas("start")
            /\ ~LogHas("set_bitrate")
            /\ Last(adapterLog).call = "set_bitrate_failed"
            /\ Cardinality({ i \in 1 .. Len(adapterLog) :
                               adapterLog[i].call = "set_bitrate_failed" }) = 1
            /\ nReads = 0
            /\ pushed = <<>>
            /\ message_queue = <<>>)
    /\ [][ readerExit = "bitrate" =>
             UNCHANGED << readerPc, readerExit, adapterLog, nReads, pushed,
                          message_queue >> ]_vars

\* set_bitrate has failed and the timer handler has run since
C9_Witness ==
    /\ LogHas("set_bitrate_failed")
    /\ readerExit = "bitrate"
    /\ tickPc = "loop"

\* the reader was receiving when an adapter call raised
RaisedWhileReceiving == readerExit = "error" /\ LogHas("start")

\* C10: after the adapter raised while the reader was receiving, the reader
\* thread has ended for good: it puts no frame, calls the adapter no more
\* and does not start over; the timer handler goes on taking the frames
\* that were queued, applies each to the tank it is for, and empties the
\* queue.
C10_ReadErrorIsTerminal ==
    /\ [][ RaisedWhileReceiving =>
             /\ readerPc = "done"
             /\ UNCHANGED << readerPc, readerExit, adapterLog, nReads, pushed >>
             /\ \/ message_queue' = message_queue
                \/ (message_queue # <<>> /\ message_queue' = Tail(message_queue))
             /\ (TakeStep /\ Head(message_queue).data[1] \in 0 .. 3) =>
                   tanks'[Head(message_queue).data[1]].level_label =
                       ShowsOnly(Head(message_queue)).level_label ]_vars
    /\ [](RaisedWhileReceiving =>
            <>(message_queue = <<>> /\ dequeued = pushed))

\* the adapter raised while two frames were queued
C10_Witness ==
    /\ RaisedWhileReceiving
    /\ Len(message_queue) = 2
    /\ nReads = 2
    /\ dequeued = <<>>

\* a step of the reader thread
ReaderStep ==
    \/ readerPc' # readerPc
    \/ readerExit' # readerExit
    \/ adapterLog' # adapterLog
    \/ nReads' # nReads
    \/ pushed' # pushed

\* a step of send_calibration
CalibrationStep == sent' # sent \/ calReport' # calReport

\* C11: tanks is changed only by a loop iteration of process_messages: a
\* step that changes it is an iteration of the timer handler's loop and
\* nothing else, and every step of the reader thread (scan, configure,
\* read, time out, filter, put, raise) and every send_calibration leaves it
\* as it was.
C11_StoreChangedOnlyByConsumerTick ==
    [][ /\ (tanks' # tanks) =>
              /\ tickPc = "loop"
              /\ TakeStep
              /\ UNCHANGED << readerVars, calVars >>
        /\ ReaderStep => tanks' = tanks
        /\ CalibrationStep => tanks' = tanks ]_vars

\* a calibration was sent for Grey Waste, its echo was read, the reader
\* ended on an error, and the timer handler has shown a reading
C11_Witness ==
    /\ Len(sent) = 1
    /\ sent[1].data[1] = 2
    /\ frame = Echo(sent[1])
    /\ readerExit = "error"
    /\ tanks[2].level_label = LabelPercent(25)

NoDeviceReport == "No USB device available"

\* C12: when the reader's scan finds no device the thread ends without an
\* adapter call, a read or a put, and stays ended; when the calibration
\* tab's scan found none, every send_calibration prints and returns without
\* dev.send; and the timer handler can still be entered and can still
\* return.
C12_NoDeviceDisablesBothPaths ==
    /\ [](readerExit = "no_device" =>
            /\ readerPc = "done"
            /\ adapterLog = <<>>
            /\ nReads = 0
            /\ pushed = <<>>
            /\ message_queue = <<>>)
    /\ [](~dev => sent = <<>>)
    /\ [][ (~dev /\ CalibrationStep) =>
              /\ calReport' = NoDeviceReport
              /\ sent' = sent
              /\ dev' = dev ]_vars
    /\ [][ readerExit = "no_device" =>
              UNCHANGED << readerVars, message_queue >> ]_vars
    /\ []((readerExit = "no_device" /\ tickPc = "idle") => ENABLED TickStart)
    /\ []((readerExit = "no_device" /\ tickPc = "loop") => ENABLED TickEnd)

\* neither scan found a device, a calibration was asked for, and the timer
\* handler has been entered since
C12_Witness ==
    /\ readerExit = "no_device"
    /\ ~dev
    /\ calReport = NoDeviceReport
    /\ tickPc = "loop"
    /\ tank_select = 2

SendReports ==
    { "Sent calibration command",
      "Failed to send calibration command",
      "Error sending calibration command" }

\* C13: a send_calibration hands exactly one frame to dev.send, once,
\* whether dev.send returns true, returns false or raises; it prints the
\* outcome; and it leaves the queue, the tanks and the reader thread as they
\* were.
C13_SendOnceNoRetry ==
    [][ /\ (sent' # sent) =>
              /\ sent' = Append(sent, CalibrationFrame(tank_select, level_input))
              /\ calReport' \in SendReports
        /\ (calReport' # calReport /\ calReport' \in SendReports) =>
              Len(sent') = Len(sent) + 1
        /\ CalibrationStep =>
              UNCHANGED << message_queue, tanks, readerVars, consumerVars >> ]_vars

\* a send failed while a frame was queued and a reading was shown
C13_Witness ==
    /\ calReport = "Failed to send calibration command"
    /\ Len(sent) = 1
    /\ message_queue # <<>>
    /\ tanks[2].level_label = LabelPercent(25)
    /\ readerPc = "read"

\* C14: every run of process_messages returns, however long the queue is
\* when it is entered and however the reader's puts fall between its loop
\* iterations: a reader that goes on putting frames cannot keep the loop
\* running for ever.
C14_TickCompletes ==
    (tickPc = "loop") ~> (tickPc = "idle")

\* C15: in every state the frames taken by get_nowait so far, followed by
\* the frames on the queue, are the frames put so far, in the order they
\* were put; and the reader in its loop can put an accepted frame whatever
\* the queue's length and whether or not process_messages is running.
C15_ExactlyOnceInOrder ==
    /\ [](dequeued \o message_queue = pushed)
    /\ []((readerPc = "read" /\ nReads < MaxReads) =>
            \A f \in StatusFrames :
                ENABLED (ReadFrame(f) /\ message_queue' = Append(message_queue, f)))

\* the handler was entered with one frame queued and has taken it, and two
\* frames were put while it ran
C15_Witness ==
    /\ tickPc = "loop"
    /\ Len(tickSnapshot) = 1
    /\ tickTaken = tickSnapshot
    /\ Len(message_queue) = 2
    /\ Len(pushed) = 3
    /\ message_queue[1] # message_queue[2]

\* what monitor_can has called on the adapter when it enters its loop
Configured ==
    << Call("stop", 0), Call("set_bitrate", 250000), Call("start", 0) >>

\* C16: no read is attempted and no frame is put before the adapter has
\* been stopped, then had bitrate 250000 set with success, then been
\* started with mode 0 (not listen-only, not loopback), in that order and
\* with no other call; and in the loop, a read that times out or delivers a
\* frame the filter rejects leaves the queue as it was and the thread in
\* the loop.
C16_ConfigureThenReceive ==
    /\ []((readerPc = "read" \/ nReads > 0 \/ pushed # <<>>) =>
            /\ adapterLog = Configured
            /\ adapterLog[3].arg = GS_CAN_MODE_NORMAL
            /\ adapterLog[3].arg \notin {GS_CAN_MODE_LISTEN_ONLY, GS_CAN_MODE_LOOP_BACK})
    /\ [](\A i \in 1 .. Len(adapterLog) :
              /\ i <= 3
              /\ adapterLog[i].call \in
                   { Configured[i].call,
                     IF i = 2 THEN "set_bitrate_failed" ELSE Configured[i].call }
              /\ adapterLog[i].arg = Configured[i].arg)
    /\ [][ ReadStep =>
             /\ readerPc = "read"
             /\ adapterLog = Configured
             /\ ~IsTankStatus(frame') =>
                   /\ message_queue' = message_queue
                   /\ pushed' = pushed
                   /\ readerPc' = "read"
                   /\ readerExit' = "running" ]_vars

\* in the loop, one read has put a frame and two have not, the last of them
\* delivering a calibration frame, and the thread is still in the loop
C16_Witness ==
    /\ readerPc = "read"
    /\ nReads = 3
    /\ Len(pushed) = 1
    /\ AndNot32(frame.can_id, CAN_EFF_FLAG) = TANK_CALIBRATION_DGN
    /\ adapterLog = Configured

\* C17: a calibration frame handed to dev.send, when the adapter hands it
\* back to dev.read, fails the filter on both counts (its echo_id is not
\* 0xFFFFFFFF, and its identifier without bit 31 is 0x19FFB6AF, not
\* 0x19FFB7AF); it is never put on the queue, and neither the send nor the
\* read of the echo changes a tank: a tank shows a reading only of a frame
\* from the bus.
C17_CalibrationEchoRejected ==
    /\ [](\A i \in 1 .. Len(sent) :
            /\ ~FilterAccepts(Echo(sent[i]))
            /\ Echo(sent[i]).echo_id # GS_USB_NONE_ECHO_ID
            /\ AndNot32(Echo(sent[i]).can_id, CAN_EFF_FLAG) = TANK_CALIBRATION_DGN
            /\ AndNot32(Echo(sent[i]).can_id, CAN_EFF_FLAG) # TANK_STATUS_DGN)
    /\ [](\A k \in 1 .. Len(pushed) : pushed[k] \notin Echoes)
    /\ [](\A i \in TankInstances :
            tanks[i] # NewTankWidget =>
                \E k \in 1 .. Len(dequeued) :
                    /\ dequeued[k] \in FewFrames
                    /\ dequeued[k].data[1] = i
                    /\ tanks[i] = ShowsOnly(dequeued[k]))
    /\ [][ /\ (sent' # sent) => tanks' = tanks
           /\ (ReadStep /\ frame' \in Echoes) =>
                 UNCHANGED << message_queue, pushed, tanks >> ]_vars

\* a calibration for Grey Waste at 75 was sent, its echo has been read, and
\* the timer handler has run since: the tank shows no reading
C17_Witness ==
    /\ Len(sent) = 1
    /\ sent[1].data[1] = 2
    /\ sent[1].data[2] = 75
    /\ frame = Echo(sent[1])
    /\ nReads = 1
    /\ tickPc = "loop"
    /\ message_queue = <<>>
    /\ tanks[2] = NewTankWidget

\* widget w holds the reading of frame f: the label is its percentage, and
\* so is the bar when the percentage is within the bar's range
HoldsReading(w, f) ==
    /\ w.level_label = ShowsOnly(f).level_label
    /\ ShowsOnly(f).level_bar \in BarMin .. BarMax =>
          w.level_bar = ShowsOnly(f).level_bar

C19_TrackedInstancesFixed ==
    /\ DOMAIN tanks = {0, 1, 2, 3}
    /\ \A k \in 1 .. Len(dequeued) : dequeued[k].data[1] \in Byte
    /\ \A i \in DOMAIN tanks :
          (\A k \in 1 .. Len(dequeued) : dequeued[k].data[1] # i) =>
              /\ tanks[i] = NewTankWidget
              /\ tanks[i].level_label.na

\* a frame with instance byte 200 has been taken and decoded, and every
\* tank is as it was made
C19_Witness ==
    /\ DecodedSome
    /\ locals[1].instance = 200
    /\ message_queue = <<>>
    /\ \A i \in TankInstances : tanks[i] = NewTankWidget

=============================================================================
